---- MODULE Spec2Model ----
(***************************************************************************)
(* Order management service: the FastAPI handlers of app/main.py, the      *)
(* pydantic models of app/models.py and the role dependency of app/auth.py *)
(* over one MongoDB collection `orders`.                                   *)
(*                                                                         *)
(* Representation.  Money is an integer number of units (the source uses   *)
(* floats; sums are compared with sums computed the same way).  Datetimes  *)
(* are integer clock readings.  An ObjectId is a positive integer, 0       *)
(* stands for any malformed id string.  A Python Optional value is None    *)
(* (the empty tuple) or Some(v) (a one-element tuple).                     *)
(*                                                                         *)
(* A handler runs atomically up to each await on the database; req holds   *)
(* the position and the locals of the handler each worker runs.  A handler *)
(* ends in pc = "done" with its response, which send_response then clears. *)
(* Callers are authenticated: the 401 paths of get_current_user and        *)
(* database outages are left out.                                          *)
(***************************************************************************)
EXTENDS Integers, Sequences, FiniteSets, TLC

\* ------------------------------------------------------------------ bounds
MaxOrders == 1      \* ObjectIds the store hands out in one run
MaxTime == 1        \* the clock reads 0..MaxTime
MaxItems == 2       \* longest item list a caller sends
MaxListOrders == 3  \* most orders in the store a listing runs over
MaxPage == 2        \* page arguments are 1..MaxPage
MaxLimit == 2       \* limit arguments are 1..MaxLimit

\* --------------------------------------------------------- Optional values
None == <<>>
Some(v) == <<v>>
IsSome(o) == Len(o) = 1
Val(o) == o[1]
OptOf(S) == {None} \cup {Some(v) : v \in S}

\* ------------------------------------------------------------ status codes
HTTP_200_OK == 200
HTTP_201_CREATED == 201
HTTP_204_NO_CONTENT == 204
HTTP_400_BAD_REQUEST == 400
HTTP_403_FORBIDDEN == 403
HTTP_404_NOT_FOUND == 404
HTTP_422_UNPROCESSABLE_ENTITY == 422
HTTP_500_INTERNAL_SERVER_ERROR == 500

\* ----------------------------------------------------------------- callers
\* The verified (subject id, role) pairs get_current_user resolves.
Callers ==
  { [user_id |-> "alice", role |-> "customer"],
    [user_id |-> "bob", role |-> "customer"],
    [user_id |-> "root", role |-> "admin"] }
UserIds == {c.user_id : c \in Callers}
NoCaller == [user_id |-> "", role |-> ""]

\* The status literal of OrderUpdate.
Statuses == {"Pending", "Processing", "Shipped", "Delivered", "Cancelled"}

\* --------------------------------------------------------- request inputs
\* Status strings callers send: enumerated ones and one outside the enumeration.
StatusInputs == {"Pending", "Shipped", "Bogus"}

CatalogItem(i) == [product_id |-> i, price |-> i + 1, quantity |-> (i % 2) + 1]
ItemSeq(n) == [i \in 1..n |-> CatalogItem(i)]
ZeroPriceItem == [product_id |-> 0, price |-> 0, quantity |-> 1]
ZeroQuantityItem == [product_id |-> 0, price |-> 1, quantity |-> 0]
\* Item lists callers send: the empty list, valid lists, lists with a bad item.
ItemLists ==
  {ItemSeq(n) : n \in 0..MaxItems}
    \cup {<<ZeroPriceItem>>, Append(ItemSeq(1), ZeroQuantityItem)}

\* The total_price values callers send: a number no item list of the model sums to.
TamperedPrices == {99}
TimeInputs == 0..MaxTime
\* 0 stands for a malformed id string, the others are well-formed ObjectIds.
OrderIdInputs == 0..MaxOrders

\* JSON bodies of POST /orders.  fields_set holds the optional fields the body
\* gives; a given field may be null (None).  For the fields typed Optional an
\* absent field and a null one validate alike, so only status is sent both ways.
\* A body whose items are missing or invalid is sent without the other optional
\* fields: it is rejected whatever they hold.
ValidItemLists == {ItemSeq(n) : n \in 1..MaxItems}
StatusChoices ==
  {<<{}, None>>} \cup {<<{"status"}, s>> : s \in OptOf(StatusInputs)}
OrderCreateBodies ==
  { [fields_set |-> st[1], user_id |-> u, items |-> Some(i), status |-> st[2],
     total_price |-> tp, created_at |-> ca, updated_at |-> ua] :
      st \in StatusChoices, u \in UserIds, i \in ValidItemLists,
      tp \in OptOf(TamperedPrices), ca \in OptOf(TimeInputs),
      ua \in OptOf(TimeInputs) }
  \cup
  { [fields_set |-> st[1], user_id |-> u, items |-> i, status |-> st[2],
     total_price |-> None, created_at |-> None, updated_at |-> None] :
      st \in StatusChoices, u \in UserIds,
      i \in OptOf(ItemLists \ ValidItemLists) }

\* ------------------------------------------------------------------- state
VARIABLES
  orders,     \* the collection: ObjectId -> stored document
  nextId,     \* the next ObjectId insert_one assigns
  now,        \* datetime.now(timezone.utc)
  req,        \* per worker: the handler in flight with the locals it still
              \* reads, or the response it has produced
  creator     \* history: ObjectId -> the caller whose create_order inserted it

vars == <<orders, nextId, now, req, creator>>

Idle == [pc |-> "idle"]

\* ----------------------------------------------------------- models.py
\* OrderItem: price and quantity are Field(gt=0).
OrderItem(it) == it.price > 0 /\ it.quantity > 0

RECURSIVE SumItems(_)
SumItems(items) ==
  IF items = <<>> THEN 0
  ELSE Head(items).price * Head(items).quantity + SumItems(Tail(items))

\* OrderCreate._calculate_total_price
calculate_total_price(items) == SumItems(items)

\* The field validation of OrderCreate: items is required, a list of at least
\* one valid OrderItem; status is a str (null is rejected) defaulting to Pending.
OrderCreateFields(body) ==
  /\ IsSome(body.items)
  /\ Len(Val(body.items)) >= 1
  /\ \A i \in 1..Len(Val(body.items)) : OrderItem(Val(body.items)[i])
  /\ ("status" \in body.fields_set => IsSome(body.status))

\* OrderCreate._set_timestamps: the created_at the model ends with.
set_created_at(created_at, current_time) ==
  IF created_at = None THEN current_time ELSE Val(created_at)

\* OrderCreate._set_timestamps: the updated_at the model ends with.
set_updated_at(updated_at, current_time) ==
  IF updated_at = None THEN current_time ELSE Val(updated_at)

\* OrderCreate(**body): validation passes iff the fields validate and the
\* after-validator does not raise "Created at cannot be in the future".
OrderCreateValid(body, current_time) ==
  /\ OrderCreateFields(body)
  /\ ~(set_created_at(body.created_at, current_time) > current_time)

\* order_data.model_dump() of a valid OrderCreate: the document to insert.
\* _calculate_total_price has replaced whatever total_price the body gave.
\* (Variant: a total_price the body gives is kept.)
OrderCreateDump_keeps_total_price(body, current_time) ==
  [user_id |-> body.user_id,
   items |-> body.items,
   status |-> IF "status" \in body.fields_set THEN body.status ELSE Some("Pending"),
   total_price |-> IF body.total_price # None THEN body.total_price
                   ELSE Some(calculate_total_price(Val(body.items))),
   created_at |-> set_created_at(body.created_at, current_time),
   updated_at |-> set_updated_at(body.updated_at, current_time)]
OrderCreateDump(body, current_time) ==
  [user_id |-> body.user_id,
   items |-> body.items,
   status |-> IF "status" \in body.fields_set THEN body.status ELSE Some("Pending"),
   total_price |-> Some(calculate_total_price(Val(body.items))),
   created_at |-> set_created_at(body.created_at, current_time),
   updated_at |-> set_updated_at(body.updated_at, current_time)]

\* find_one({"_id": oid}): the stored document or None.
find_one(oid) == IF oid \in DOMAIN orders THEN Some(orders[oid]) ELSE None

\* OrderResponse validation of what a handler returns (response_model): the
\* document must be there, with a non-empty list of valid items, a str status
\* and a created_at not after the current time.
OrderResponseValid(found, current_time) ==
  /\ IsSome(found)
  /\ IsSome(Val(found).items)
  /\ Len(Val(Val(found).items)) >= 1
  /\ \A i \in 1..Len(Val(Val(found).items)) : OrderItem(Val(Val(found).items)[i])
  /\ IsSome(Val(found).status)
  /\ ~(Val(found).created_at > current_time)

\* The response body built from a stored document: OrderResponse inherits the
\* after-validator of OrderCreate, so total_price is computed from the items.
\* (Variant: a response model without the validator, the stored total_price
\* is passed on.)
OrderResponse_stored_total_price(oid, doc) ==
  [id |-> oid,
   user_id |-> doc.user_id,
   items |-> Val(doc.items),
   status |-> Val(doc.status),
   total_price |-> Val(doc.total_price),
   created_at |-> doc.created_at,
   updated_at |-> doc.updated_at]
OrderResponse(oid, doc) ==
  [id |-> oid,
   user_id |-> doc.user_id,
   items |-> Val(doc.items),
   status |-> Val(doc.status),
   total_price |-> calculate_total_price(Val(doc.items)),
   created_at |-> doc.created_at,
   updated_at |-> doc.updated_at]

\* ObjectId.is_valid(order_id)
\* (Variant: every id string is taken as well-formed.)
ObjectIdIsValid_any(order_id) == TRUE
ObjectIdIsValid(order_id) == order_id > 0

\* ---------------------------------------------------- models.py: OrderUpdate
\* The field validation of OrderUpdate: status is null or one of the literal's
\* values; items is null or a list (of any length) of valid OrderItems.
\* (Variant: status typed Optional[str].)
OrderUpdateFields_any_status(body) ==
  IsSome(body.items) =>
    \A i \in 1..Len(Val(body.items)) : OrderItem(Val(body.items)[i])
OrderUpdateFields(body) ==
  /\ (IsSome(body.status) => Val(body.status) \in Statuses)
  /\ (IsSome(body.items) =>
        \A i \in 1..Len(Val(body.items)) : OrderItem(Val(body.items)[i]))

\* OrderUpdate._update_total_price: the total_price the model ends with.
update_total_price(body) ==
  IF body.items # None THEN Some(calculate_total_price(Val(body.items)))
  ELSE body.total_price

\* The fields set on a valid OrderUpdate once its after-validator has run: the
\* fields the body gives and the fields the validator assigns (total_price when
\* items is not None, updated_at always).
OrderUpdateFieldsSet(body) ==
  body.fields_set
    \cup (IF body.items # None THEN {"total_price"} ELSE {})
    \cup {"updated_at"}

\* update_data.model_dump(exclude_unset=True): field name -> value to $set.
\* _set_update_time has put the time of validation into updated_at.  OrderUpdate
\* declares status, items, total_price and updated_at; pydantic drops every
\* other key of the body (body.extra).
\* (Variant: a model that keeps the undeclared keys.)
OrderUpdateDump_extra_allowed(body, current_time) ==
  [f \in OrderUpdateFieldsSet(body) \cup DOMAIN body.extra |->
     CASE f = "status" -> body.status
       [] f = "items" -> body.items
       [] f = "total_price" -> update_total_price(body)
       [] f = "updated_at" -> current_time
       [] OTHER -> body.extra[f]]
OrderUpdateDump(body, current_time) ==
  [f \in OrderUpdateFieldsSet(body) |->
     CASE f = "status" -> body.status
       [] f = "items" -> body.items
       [] f = "total_price" -> update_total_price(body)
       [] f = "updated_at" -> current_time]

\* update_one({"_id": oid}, {"$set": update_dict}) on a stored document.
\* (Variant: the fields are not written.)
SetFields_ignored(doc, update_dict) == doc
SetFields(doc, update_dict) ==
  [f \in DOMAIN doc \cup DOMAIN update_dict |->
     IF f \in DOMAIN update_dict THEN update_dict[f] ELSE doc[f]]

\* ------------------------------------------------------------- responses
Response(op, caller, oid, code, r, body) ==
  [pc |-> "done", op |-> op, caller |-> caller, oid |-> oid, code |-> code,
   r |-> r, body |-> body]

\* The handler of worker w ends with response resp.
Respond(w, resp) == req' = [req EXCEPT ![w] = resp]

\* What a create response records of its request.
CreateReq(body, current_time) ==
  [user_id |-> body.user_id,
   status_given |-> "status" \in body.fields_set,
   status |-> body.status,
   total_price |-> body.total_price,
   valid |-> OrderCreateValid(body, current_time)]

NoReq == [valid |-> TRUE]

\* What an update response records of its request.
UpdateReq(body) ==
  [valid |-> OrderUpdateFields(body), status |-> body.status, changed |-> FALSE]

\* ------------------------------------------------------ auth.py dependency
\* get_current_admin_user lets the request through.
\* (Variant: every authenticated caller is let through.)
get_current_admin_user_any_role(current_user) == TRUE
get_current_admin_user(current_user) == current_user.role = "admin"

\* --------------------------------------------------------------- handlers
\* create_order: "if order_data.user_id != current_user.user_id", whatever the role.
\* (Variants: the check with admins exempted, and the check left out.)
owner_mismatch_admin_exempt(current_user, body) ==
  current_user.role # "admin" /\ body.user_id # current_user.user_id
owner_mismatch_ignored(current_user, body) == FALSE
owner_mismatch(current_user, body) == body.user_id # current_user.user_id

\* create_order: a caller who is not an admin may only create a Pending order.
\* (Variant: the role test inverted.)
non_pending_refused_role_swapped(current_user, order_dict) ==
  current_user.role = "admin" /\ order_dict.status # Some("Pending")
non_pending_refused(current_user, order_dict) ==
  current_user.role # "admin" /\ order_dict.status # Some("Pending")

\* POST /orders up to and including insert_one.
create_order(w, current_user, body) ==
  /\ req[w] = Idle
  /\ IF ~OrderCreateValid(body, now)
       THEN /\ Respond(w, Response("create", current_user, 0,
                          HTTP_422_UNPROCESSABLE_ENTITY, CreateReq(body, now), None))
            /\ UNCHANGED <<orders, nextId, creator>>
     ELSE IF owner_mismatch(current_user, body)
       THEN /\ Respond(w, Response("create", current_user, 0,
                          HTTP_403_FORBIDDEN, CreateReq(body, now), None))
            /\ UNCHANGED <<orders, nextId, creator>>
     ELSE IF non_pending_refused(current_user, OrderCreateDump(body, now))
       THEN /\ Respond(w, Response("create", current_user, 0,
                          HTTP_403_FORBIDDEN, CreateReq(body, now), None))
            /\ UNCHANGED <<orders, nextId, creator>>
     ELSE /\ nextId <= MaxOrders
          /\ orders' = [oid \in DOMAIN orders \cup {nextId} |->
                          IF oid = nextId THEN OrderCreateDump(body, now)
                          ELSE orders[oid]]
          /\ creator' = [creator EXCEPT ![nextId] = current_user]
          /\ nextId' = nextId + 1
          /\ req' = [req EXCEPT ![w] =
                       [pc |-> "create_read", caller |-> current_user,
                        oid |-> nextId, r |-> CreateReq(body, now)]]
  /\ UNCHANGED now

\* POST /orders after insert_one: find_one on the inserted id, then the response.
create_order_read(w) ==
  /\ req[w].pc = "create_read"
  /\ LET found == find_one(req[w].oid)
     IN IF OrderResponseValid(found, now)
          THEN Respond(w, Response("create", req[w].caller, req[w].oid,
                          HTTP_201_CREATED, req[w].r,
                          Some(OrderResponse(req[w].oid, Val(found)))))
        ELSE Respond(w, Response("create", req[w].caller, req[w].oid,
                          HTTP_500_INTERNAL_SERVER_ERROR, req[w].r, None))
  /\ UNCHANGED <<orders, nextId, now, creator>>

\* The status code of GET /orders/{order_id}.
get_order_code(current_user, order_id) ==
  IF ~ObjectIdIsValid(order_id) THEN HTTP_400_BAD_REQUEST
  ELSE IF find_one(order_id) = None THEN HTTP_404_NOT_FOUND
  ELSE IF current_user.role # "admin"
          /\ Val(find_one(order_id)).user_id # current_user.user_id
    THEN HTTP_403_FORBIDDEN
  ELSE IF ~OrderResponseValid(find_one(order_id), now)
    THEN HTTP_500_INTERNAL_SERVER_ERROR
  ELSE HTTP_200_OK

\* GET /orders/{order_id}
get_order(w, current_user, order_id) ==
  /\ req[w] = Idle
  /\ LET code == get_order_code(current_user, order_id)
     IN Respond(w, Response("get", current_user, order_id, code, NoReq,
                    IF code = HTTP_200_OK
                      THEN Some(OrderResponse(order_id, Val(find_one(order_id))))
                      ELSE None))
  /\ UNCHANGED <<orders, nextId, now, creator>>

\* PATCH /orders/{order_id} refused by the admin dependency, which runs before
\* the body is validated: the response does not depend on the body.
update_order_forbidden(w, current_user, order_id) ==
  /\ req[w] = Idle
  /\ ~get_current_admin_user(current_user)
  /\ Respond(w, Response("update", current_user, order_id, HTTP_403_FORBIDDEN,
                 NoReq, None))
  /\ UNCHANGED <<orders, nextId, now, creator>>

\* PATCH /orders/{order_id} by an admin, up to and including the first find_one.
update_order(w, current_user, order_id, body) ==
  /\ req[w] = Idle
  /\ get_current_admin_user(current_user)
  /\ IF ~OrderUpdateFields(body)
       THEN Respond(w, Response("update", current_user, order_id,
                        HTTP_422_UNPROCESSABLE_ENTITY, UpdateReq(body), None))
     ELSE IF ~ObjectIdIsValid(order_id)
       THEN Respond(w, Response("update", current_user, order_id,
                        HTTP_400_BAD_REQUEST, UpdateReq(body), None))
     ELSE IF find_one(order_id) = None
       THEN Respond(w, Response("update", current_user, order_id,
                        HTTP_404_NOT_FOUND, UpdateReq(body), None))
     ELSE req' = [req EXCEPT ![w] =
                    [pc |-> "update_write", caller |-> current_user,
                     oid |-> order_id, r |-> UpdateReq(body),
                     update_dict |-> OrderUpdateDump(body, now)]]
  /\ UNCHANGED <<orders, nextId, now, creator>>

\* update_one({"_id": order_id}, {"$set": update_dict}): the collection after
\* it; a document is changed only if one with that id is stored.
\* (Variant: upsert, a missing document is created from the fields set.)
update_one_upsert(order_id, update_dict) ==
  [oid \in DOMAIN orders \cup {order_id} |->
     IF oid # order_id THEN orders[oid]
     ELSE IF oid \in DOMAIN orders THEN SetFields(orders[oid], update_dict)
     ELSE SetFields([user_id |-> "", items |-> None, status |-> None,
                     total_price |-> None, created_at |-> 0, updated_at |-> 0],
                    update_dict)]
update_one(order_id, update_dict) ==
  [oid \in DOMAIN orders |->
     IF oid = order_id THEN SetFields(orders[oid], update_dict)
     ELSE orders[oid]]

\* PATCH /orders/{order_id}: the update_one.  r.changed records whether it
\* changed the store.
update_order_write(w) ==
  /\ req[w].pc = "update_write"
  /\ orders' = update_one(req[w].oid, req[w].update_dict)
  /\ req' = [req EXCEPT ![w].pc = "update_read",
                         ![w].r.changed = (orders' # orders)]
  /\ UNCHANGED <<nextId, now, creator>>

\* PATCH /orders/{order_id}: the second find_one, then the response.
update_order_read(w) ==
  /\ req[w].pc = "update_read"
  /\ LET found == find_one(req[w].oid)
     IN IF OrderResponseValid(found, now)
          THEN Respond(w, Response("update", req[w].caller, req[w].oid,
                          HTTP_200_OK, req[w].r,
                          Some(OrderResponse(req[w].oid, Val(found)))))
        ELSE Respond(w, Response("update", req[w].caller, req[w].oid,
                          HTTP_500_INTERNAL_SERVER_ERROR, req[w].r, None))
  /\ UNCHANGED <<orders, nextId, now, creator>>

\* delete_one({"_id": oid}): the collection without that document.
\* (Variant: the document is kept.)
delete_one_keeps(oid) == orders
delete_one(oid) == [o \in DOMAIN orders \ {oid} |-> orders[o]]

\* DELETE /orders/{order_id}
delete_order(w, current_user, order_id) ==
  /\ req[w] = Idle
  /\ IF ~get_current_admin_user(current_user)
       THEN /\ Respond(w, Response("delete", current_user, order_id,
                          HTTP_403_FORBIDDEN, NoReq, None))
            /\ UNCHANGED orders
     ELSE IF ~ObjectIdIsValid(order_id)
       THEN /\ Respond(w, Response("delete", current_user, order_id,
                          HTTP_400_BAD_REQUEST, NoReq, None))
            /\ UNCHANGED orders
     ELSE IF order_id \notin DOMAIN orders
       THEN /\ Respond(w, Response("delete", current_user, order_id,
                          HTTP_404_NOT_FOUND, NoReq, None))
            /\ UNCHANGED orders
     ELSE /\ orders' = delete_one(order_id)
          /\ Respond(w, Response("delete", current_user, order_id,
                        HTTP_204_NO_CONTENT, NoReq, None))
  /\ UNCHANGED <<nextId, now, creator>>

\* ------------------------------------------------------------ GET /orders
\* list_orders: the query built from the caller and the status argument.  A
\* caller who is not an admin is held to user_id = its own id; "if status:"
\* adds the status condition for a string that is not empty.
\* (Variant: no condition on user_id for any caller.)
list_query_unscoped(current_user, status) ==
  [user_id |-> None,
   status |-> IF status # None /\ Val(status) # "" THEN status ELSE None]
list_query(current_user, status) ==
  [user_id |-> IF current_user.role # "admin"
                 THEN Some(current_user.user_id) ELSE None,
   status |-> IF status # None /\ Val(status) # "" THEN status ELSE None]

\* A stored document satisfies the query (equality on each field it names).
Matches(query, doc) ==
  /\ (IsSome(query.user_id) => doc.user_id = Val(query.user_id))
  /\ (IsSome(query.status) => doc.status = query.status)
Matching(query) == {oid \in DOMAIN orders : Matches(query, orders[oid])}

\* db.orders.count_documents(query)
count_documents(query) == Cardinality(Matching(query))

\* find(query).sort("created_at", -1): the matching ids, latest created_at
\* first.  The sort has no second key: the store may return documents with
\* equal created_at in either order, and differently from one call to the next.
SortedFinds(query) ==
  { f \in [1..Cardinality(Matching(query)) -> Matching(query)] :
      /\ \A i, j \in DOMAIN f : i # j => f[i] # f[j]
      /\ \A i, j \in DOMAIN f :
           i < j => orders[f[i]].created_at >= orders[f[j]].created_at }

\* .skip(skip).limit(limit) on a sorted result.
SkipLimit(found, skip, limit) ==
  SubSeq(found, skip + 1,
         IF skip + limit < Len(found) THEN skip + limit ELSE Len(found))

\* total_pages=(total + limit - 1) // limit
\* (Variant: total // limit.)
total_pages_floor(total, limit) == total \div limit
total_pages(total, limit) == (total + limit - 1) \div limit

\* What a list response records of its request.
ListReq(status, page, limit) ==
  [valid |-> TRUE, status |-> status, page |-> page, limit |-> limit]

\* GET /orders up to and including count_documents.
list_orders(w, current_user, status, page, limit) ==
  /\ req[w] = Idle
  /\ req' = [req EXCEPT ![w] =
               [pc |-> "list_find", caller |-> current_user,
                r |-> ListReq(status, page, limit),
                query |-> list_query(current_user, status),
                skip |-> (page - 1) * limit,
                total |-> count_documents(list_query(current_user, status))]]
  /\ UNCHANGED <<orders, nextId, now, creator>>

\* The cursor and the page arithmetic fail: skip() refuses a negative skip,
\* to_list() a negative length, and (total + limit - 1) // limit divides by a
\* zero limit.  page and limit are plain ints, nothing checks them before.
list_arithmetic_fails(skip, limit) == skip < 0 \/ limit <= 0

\* GET /orders: the find, then OrderListResponse with an OrderResponse built
\* in the handler from each document of the page; one that fails validation
\* raises and the call is answered 500, as is a call whose cursor or page
\* arithmetic raises.
list_orders_find(w) ==
  /\ req[w].pc = "list_find"
  /\ \E found \in SortedFinds(req[w].query) :
       LET page_ids == IF list_arithmetic_fails(req[w].skip, req[w].r.limit)
                         THEN <<>>
                       ELSE SkipLimit(found, req[w].skip, req[w].r.limit)
       IN IF list_arithmetic_fails(req[w].skip, req[w].r.limit)
            THEN Respond(w, Response("list", req[w].caller, 0,
                   HTTP_500_INTERNAL_SERVER_ERROR, req[w].r, None))
          ELSE IF \A i \in DOMAIN page_ids :
               OrderResponseValid(Some(orders[page_ids[i]]), now)
            THEN Respond(w, Response("list", req[w].caller, 0, HTTP_200_OK,
                   req[w].r,
                   Some([orders |-> [i \in DOMAIN page_ids |->
                                       OrderResponse(page_ids[i],
                                                     orders[page_ids[i]])],
                         total |-> req[w].total,
                         page |-> req[w].r.page,
                         limit |-> req[w].r.limit,
                         total_pages |->
                           total_pages(req[w].total, req[w].r.limit)])))
          ELSE Respond(w, Response("list", req[w].caller, 0,
                   HTTP_500_INTERNAL_SERVER_ERROR, req[w].r, None))
  /\ UNCHANGED <<orders, nextId, now, creator>>

\* The response of worker w has been sent; the worker takes the next request.
send_response(w) ==
  /\ req[w].pc = "done"
  /\ req' = [req EXCEPT ![w] = Idle]
  /\ UNCHANGED <<orders, nextId, now, creator>>

\* The clock advances.
Tick ==
  /\ now < MaxTime
  /\ now' = now + 1
  /\ UNCHANGED <<orders, nextId, req, creator>>

\* ------------------------------------------------------------------- spec
\* JSON bodies of PATCH /orders/{order_id}: each field absent, null or given
\* (an absent field holds its default, None).
FieldChoices(name, S) ==
  {<<{}, None>>} \cup {<<{name}, v>> : v \in OptOf(S)}
\* Keys OrderUpdate does not declare, as a body may still hold them.
ExtraFields ==
  { [f \in {"user_id"} |-> "bob"], [f \in {"created_at"} |-> MaxTime] }
\* The undeclared keys are sent with an otherwise empty patch and with a
\* status-only patch: what becomes of them does not depend on the other fields.
OrderUpdateBodies ==
  { [fields_set |-> s[1] \cup i[1] \cup tp[1] \cup ua[1], status |-> s[2],
     items |-> i[2], total_price |-> tp[2], updated_at |-> ua[2],
     extra |-> <<>>] :
      s \in FieldChoices("status", StatusInputs),
      i \in FieldChoices("items", ItemLists),
      tp \in FieldChoices("total_price", TamperedPrices),
      ua \in {<<{}, None>>, <<{"updated_at"}, Some(0)>>} }
  \cup
  { [fields_set |-> s[1], status |-> s[2], items |-> None,
     total_price |-> None, updated_at |-> None, extra |-> e] :
      s \in {<<{}, None>>, <<{"status"}, Some("Shipped")>>},
      e \in ExtraFields }

Init ==
  /\ orders = <<>>
  /\ nextId = 1
  /\ now = 0
  /\ req = [w \in {1} |-> Idle]
  /\ creator = [oid \in 1..MaxOrders |-> NoCaller]

Next ==
  \/ Tick
  \/ \E w \in DOMAIN req : send_response(w)
  \/ \E w \in DOMAIN req, c \in Callers, body \in OrderCreateBodies :
       create_order(w, c, body)
  \/ \E w \in DOMAIN req : create_order_read(w)
  \/ \E w \in DOMAIN req, c \in Callers, oid \in OrderIdInputs :
       get_order(w, c, oid)
  \/ \E w \in DOMAIN req, c \in Callers, oid \in OrderIdInputs :
       update_order_forbidden(w, c, oid)
  \/ \E w \in DOMAIN req, c \in Callers, oid \in OrderIdInputs,
        body \in OrderUpdateBodies : update_order(w, c, oid, body)
  \/ \E w \in DOMAIN req : update_order_write(w)
  \/ \E w \in DOMAIN req : update_order_read(w)
  \/ \E w \in DOMAIN req, c \in Callers, oid \in OrderIdInputs :
       delete_order(w, c, oid)

Spec == Init /\ [][Next]_vars

\* ------------------------------------------------- two requests in flight
\* The server runs handlers concurrently: one may start while another waits on
\* the database.  Two workers, with alice creating a plain order and an admin
\* sending status-only patches.
ConcWorkers == {1, 2}
ConcCreateBodies ==
  { [fields_set |-> {}, user_id |-> "alice", items |-> Some(ItemSeq(1)),
     status |-> None, total_price |-> None, created_at |-> None,
     updated_at |-> None] }
ConcUpdateBodies ==
  { [fields_set |-> {"status"}, status |-> Some(s), items |-> None,
     total_price |-> None, updated_at |-> None, extra |-> <<>>] :
      s \in {"Processing", "Shipped"} }
ConcCallers == {c \in Callers : c.user_id \in {"alice", "root"}}

InitConc ==
  /\ orders = <<>>
  /\ nextId = 1
  /\ now = 0
  /\ req = [w \in ConcWorkers |-> Idle]
  /\ creator = [oid \in 1..MaxOrders |-> NoCaller]

NextConc ==
  \/ Tick
  \/ \E w \in DOMAIN req : send_response(w)
  \/ \E w \in DOMAIN req, c \in ConcCallers, body \in ConcCreateBodies :
       create_order(w, c, body)
  \/ \E w \in DOMAIN req : create_order_read(w)
  \/ \E w \in DOMAIN req, c \in ConcCallers, oid \in 1..MaxOrders,
        body \in ConcUpdateBodies : update_order(w, c, oid, body)
  \/ \E w \in DOMAIN req : update_order_write(w)
  \/ \E w \in DOMAIN req : update_order_read(w)
  \/ \E w \in DOMAIN req, c \in ConcCallers, oid \in 1..MaxOrders :
       delete_order(w, c, oid)

SpecConc == InitConc /\ [][NextConc]_vars

\* ------------------------------------------------- listings over a store
\* Documents as create_order and update_order leave them: owned by alice or
\* bob, Pending or (after an admin's patch) Shipped, created at 0 or 1, and
\* one whose items an admin's patch has emptied.
ListDoc(u, st, ca) ==
  [user_id |-> u, items |-> Some(ItemSeq(1)), status |-> Some(st),
   total_price |-> Some(SumItems(ItemSeq(1))), created_at |-> ca,
   updated_at |-> ca]
EmptiedDoc ==
  [ListDoc("alice", "Pending", 0) EXCEPT
     !.items = Some(<<>>), !.total_price = Some(0), !.updated_at = MaxTime]
ListDocs ==
  { ListDoc(u, sc[1], sc[2]) :
      u \in {"alice", "bob"},
      sc \in {<<"Pending", 0>>, <<"Pending", MaxTime>>, <<"Shipped", MaxTime>>} }
    \cup {EmptiedDoc}
ListCallers == {c \in Callers : c.user_id \in {"alice", "root"}}
\* page and limit arguments: ints, zero and negative ones included.
PageInputs == 0..MaxPage
LimitInputs == (0 - 1)..MaxLimit
\* The status arguments: none, the empty string, a stored value, an unknown one.
StatusFilters == {None, Some(""), Some("Pending"), Some("Bogus")}
Stores(docs) == UNION {[1..n -> docs] : n \in 0..MaxListOrders}

\* The store holds any documents of docs; workers are idle.
InitStore(docs, workers) ==
  /\ orders \in Stores(docs)
  /\ nextId = Len(orders) + 1
  /\ now = MaxTime
  /\ req = [w \in workers |-> Idle]
  /\ creator = [oid \in DOMAIN orders |->
                  [user_id |-> orders[oid].user_id, role |-> "customer"]]

InitList == InitStore(ListDocs, {1})

NextList ==
  \/ \E w \in DOMAIN req : send_response(w)
  \/ \E w \in DOMAIN req, c \in ListCallers, st \in StatusFilters,
        page \in PageInputs, limit \in LimitInputs :
       list_orders(w, c, st, page, limit)
  \/ \E w \in DOMAIN req : list_orders_find(w)

SpecList == InitList /\ [][NextList]_vars

\* Two listings in flight over a store of valid Pending orders, the callers
\* asking for the pages under one status argument.
PageDocs ==
  { ListDoc("alice", "Pending", 0), ListDoc("alice", "Pending", MaxTime),
    ListDoc("bob", "Pending", 0) }

InitPages == InitStore(PageDocs, {1, 2})

NextPages ==
  \/ \E w \in DOMAIN req : send_response(w)
  \/ \E w \in DOMAIN req, c \in ListCallers,
        page \in 1..MaxPage, limit \in 1..MaxLimit :
       list_orders(w, c, None, page, limit)
  \/ \E w \in DOMAIN req : list_orders_find(w)

SpecPages == InitPages /\ [][NextPages]_vars

\* A listing in flight while orders are created and deleted: alice creates a
\* plain order, an admin deletes, and either lists the first page.
InitListRace == InitConc

NextListRace ==
  \/ \E w \in DOMAIN req : send_response(w)
  \/ \E w \in DOMAIN req, c \in ConcCallers, body \in ConcCreateBodies :
       create_order(w, c, body)
  \/ \E w \in DOMAIN req : create_order_read(w)
  \/ \E w \in DOMAIN req, c \in ConcCallers, oid \in 1..MaxOrders :
       delete_order(w, c, oid)
  \/ \E w \in DOMAIN req, c \in ConcCallers, limit \in 1..MaxLimit :
       list_orders(w, c, None, 1, limit)
  \/ \E w \in DOMAIN req : list_orders_find(w)

SpecListRace == InitListRace /\ [][NextListRace]_vars

\* ------------------------------------------------ status transitions
\* One stored order in any of the five statuses (as admin patches leave it),
\* and an admin patching its status to any of the five.
StatusDocs ==
  { ListDoc(u, st, ca) :
      u \in {"alice", "bob"}, st \in Statuses, ca \in {0, MaxTime} }
StatusUpdateBodies ==
  { [fields_set |-> {"status"}, status |-> Some(st), items |-> None,
     total_price |-> None, updated_at |-> None, extra |-> <<>>] :
      st \in Statuses }
Admins == {c \in Callers : c.role = "admin"}

InitStatus ==
  /\ orders \in {<<doc>> : doc \in StatusDocs}
  /\ nextId = 2
  /\ now = MaxTime
  /\ req = [w \in {1} |-> Idle]
  /\ creator = [oid \in DOMAIN orders |->
                  [user_id |-> orders[oid].user_id, role |-> "customer"]]

NextStatus ==
  \/ \E w \in DOMAIN req : send_response(w)
  \/ \E w \in DOMAIN req, c \in Admins, body \in StatusUpdateBodies :
       update_order(w, c, 1, body)
  \/ \E w \in DOMAIN req : update_order_write(w)
  \/ \E w \in DOMAIN req : update_order_read(w)

SpecStatus == InitStatus /\ [][NextStatus]_vars

\* ------------------------------------------- responses over a tampered store
\* Stores that hold an order whose stored total_price an admin's patch has set
\* to a value that is not the sum of its items; orders are created (with a
\* total_price in the body), read, listed and patched (total_price only).
TamperedDoc ==
  [ListDoc("alice", "Pending", 0) EXCEPT
     !.total_price = Some(CHOOSE tp \in TamperedPrices : TRUE),
     !.updated_at = MaxTime]
ResponseDocs ==
  { ListDoc("alice", "Pending", 0), TamperedDoc, ListDoc("bob", "Shipped", MaxTime) }
ResponseCreateBodies ==
  { [fields_set |-> {}, user_id |-> "alice", items |-> Some(ItemSeq(MaxItems)),
     status |-> None, total_price |-> Some(tp), created_at |-> None,
     updated_at |-> None] : tp \in TamperedPrices }
ResponseUpdateBodies ==
  { [fields_set |-> {"total_price"}, status |-> None, items |-> None,
     total_price |-> Some(tp), updated_at |-> None, extra |-> <<>>] :
      tp \in TamperedPrices }

InitResponses ==
  /\ orders \in Stores(ResponseDocs)
  /\ nextId = Len(orders) + 1
  /\ now = MaxTime
  /\ req = [w \in {1} |-> Idle]
  /\ creator = [oid \in 1..MaxListOrders |->
                  IF oid \in DOMAIN orders
                    THEN [user_id |-> orders[oid].user_id, role |-> "customer"]
                  ELSE NoCaller]

NextResponses ==
  \/ \E w \in DOMAIN req : send_response(w)
  \/ \E w \in DOMAIN req, c \in ListCallers, body \in ResponseCreateBodies :
       create_order(w, c, body)
  \/ \E w \in DOMAIN req : create_order_read(w)
  \/ \E w \in DOMAIN req, c \in ListCallers, oid \in 1..MaxListOrders :
       get_order(w, c, oid)
  \/ \E w \in DOMAIN req, c \in Admins, oid \in 1..MaxListOrders,
        body \in ResponseUpdateBodies : update_order(w, c, oid, body)
  \/ \E w \in DOMAIN req : update_order_write(w)
  \/ \E w \in DOMAIN req : update_order_read(w)
  \/ \E w \in DOMAIN req, c \in ListCallers,
        page \in 1..MaxPage, limit \in 1..MaxLimit :
       list_orders(w, c, None, page, limit)
  \/ \E w \in DOMAIN req : list_orders_find(w)

SpecResponses == InitResponses /\ [][NextResponses]_vars

\* ----------------------------------------------------------------- claims
Done(w) == req[w].pc = "done"
\* Worker w produces its response in this step.
Responds(w, op) == req[w].pc # "done" /\ req'[w].pc = "done" /\ req'[w].op = op
\* The orders this step inserts.
Inserted == DOMAIN orders' \ DOMAIN orders

\* C1: every stored order's total_price equals the sum over its stored items
\* of price * quantity (stated for the orders that hold an item list).
C1_TotalPriceIsSumOfItems ==
  \A oid \in DOMAIN orders :
    IsSome(orders[oid].items) =>
      orders[oid].total_price = Some(SumItems(Val(orders[oid].items)))

\* C2: every stored order's status is one of the five enumerated values.
C2_StatusIsEnumerated ==
  \A oid \in DOMAIN orders :
    IsSome(orders[oid].status) /\ Val(orders[oid].status) \in Statuses

\* C3: every stored order has a non-empty item list whose items all have
\* price > 0 and quantity > 0.
C3_ItemsNonEmptyAndPositive ==
  \A oid \in DOMAIN orders :
    /\ IsSome(orders[oid].items)
    /\ Len(Val(orders[oid].items)) >= 1
    /\ \A i \in 1..Len(Val(orders[oid].items)) :
         /\ Val(orders[oid].items)[i].price > 0
         /\ Val(orders[oid].items)[i].quantity > 0

\* C4: every stored order satisfies created_at <= updated_at.
C4_CreatedNotAfterUpdated ==
  \A oid \in DOMAIN orders : orders[oid].created_at <= orders[oid].updated_at

\* C5: an order is inserted with created_at = updated_at = the time of the
\* create call, whatever timestamps the request body holds.
C5_CreateStampsNow ==
  [][\A oid \in Inserted :
       orders'[oid].created_at = now /\ orders'[oid].updated_at = now]_vars

\* C6: create_order by a caller who is not an admin, with a body that passes
\* validation and names another user, answers 403 and inserts nothing; no
\* stored order created by a non-admin is owned by anyone but its creator.
C6_ForeignOwnerRefused ==
  \A w \in DOMAIN req :
    (Done(w) /\ req[w].op = "create" /\ req[w].caller.role # "admin"
       /\ req[w].r.valid /\ req[w].r.user_id # req[w].caller.user_id)
      => req[w].code = HTTP_403_FORBIDDEN
C6_ForeignOwnerNotStored ==
  \A oid \in DOMAIN orders :
    creator[oid].role # "admin" => orders[oid].user_id = creator[oid].user_id
C6_ForeignOwnerInsertsNothing ==
  \A w \in DOMAIN req :
    (Responds(w, "create") /\ req'[w].caller.role # "admin"
       /\ req'[w].r.user_id # req'[w].caller.user_id)
      => orders' = orders
C6_NonAdminCreatesOnlyForSelf ==
  /\ [](C6_ForeignOwnerRefused /\ C6_ForeignOwnerNotStored)
  /\ [][C6_ForeignOwnerInsertsNothing]_vars
C6_Witness ==
  \E w \in DOMAIN req :
    /\ Done(w) /\ req[w].op = "create" /\ req[w].caller.role = "customer"
    /\ req[w].r.valid /\ req[w].r.user_id # req[w].caller.user_id
    /\ req[w].code = HTTP_403_FORBIDDEN
    /\ orders = <<>>

\* C7 as claimed: create_order by an admin with a valid body naming another
\* user succeeds.
C7_AdminCreatesForAnyUser ==
  \A w \in DOMAIN req :
    (Done(w) /\ req[w].op = "create" /\ req[w].caller.role = "admin"
       /\ req[w].r.valid /\ req[w].r.user_id # req[w].caller.user_id)
      => req[w].code = HTTP_201_CREATED
\* C7 as amended: create_order by an admin with a valid body naming another
\* user answers 403 and inserts nothing; every stored order created by an
\* admin is owned by that admin.
C7_AdminForeignOwnerRefused ==
  \A w \in DOMAIN req :
    (Done(w) /\ req[w].op = "create" /\ req[w].caller.role = "admin"
       /\ req[w].r.valid /\ req[w].r.user_id # req[w].caller.user_id)
      => req[w].code = HTTP_403_FORBIDDEN
C7_AdminOrderOwnedByAdmin ==
  \A oid \in DOMAIN orders :
    creator[oid].role = "admin" => orders[oid].user_id = creator[oid].user_id
C7_AdminForeignOwnerInsertsNothing ==
  \A w \in DOMAIN req :
    (Responds(w, "create") /\ req'[w].caller.role = "admin"
       /\ req'[w].r.user_id # req'[w].caller.user_id)
      => orders' = orders
C7_AdminCreatesOnlyForSelf ==
  /\ [](C7_AdminForeignOwnerRefused /\ C7_AdminOrderOwnedByAdmin)
  /\ [][C7_AdminForeignOwnerInsertsNothing]_vars
C7_Witness ==
  \E w \in DOMAIN req :
    /\ Done(w) /\ req[w].op = "create" /\ req[w].caller.role = "admin"
    /\ req[w].r.valid /\ req[w].r.user_id # req[w].caller.user_id
    /\ req[w].code = HTTP_403_FORBIDDEN
    /\ orders = <<>>

\* C8: create_order by a caller who is not an admin, with a body that passes
\* validation and gives a status other than Pending, answers 403 and inserts
\* nothing; every order a non-admin inserts is stored with status Pending, also
\* when the body gives no status.
C8_NonPendingRefused ==
  \A w \in DOMAIN req :
    (Done(w) /\ req[w].op = "create" /\ req[w].caller.role # "admin"
       /\ req[w].r.valid /\ req[w].r.status_given
       /\ req[w].r.status # Some("Pending"))
      => req[w].code = HTTP_403_FORBIDDEN
C8_NonPendingInsertsNothing ==
  \A w \in DOMAIN req :
    (Responds(w, "create") /\ req'[w].caller.role # "admin"
       /\ req'[w].r.status_given /\ req'[w].r.status # Some("Pending"))
      => orders' = orders
C8_InsertedPending ==
  \A oid \in Inserted :
    creator'[oid].role # "admin" => orders'[oid].status = Some("Pending")
C9_UnknownStatusIsInvalidInput ==
  \A w \in DOMAIN req :
    (Done(w) /\ req[w].op = "create" /\ req[w].r.status_given
       /\ IsSome(req[w].r.status) /\ Val(req[w].r.status) \notin Statuses)
      => req[w].code = HTTP_422_UNPROCESSABLE_ENTITY

\* C10: get_order on a stored order answers 200 with the order if the caller
\* is an admin or the order's owner, and 403 without it otherwise.
C10_GetOrderIffAdminOrOwner ==
  [][\A w \in DOMAIN req :
       (Responds(w, "get") /\ req'[w].oid \in DOMAIN orders)
         => IF req'[w].caller.role = "admin"
               \/ req'[w].caller.user_id = orders[req'[w].oid].user_id
              THEN req'[w].code = HTTP_200_OK /\ IsSome(req'[w].body)
            ELSE req'[w].code = HTTP_403_FORBIDDEN /\ req'[w].body = None]_vars

\* Worker w holds a list response with content.
Listed(w) == Done(w) /\ req[w].op = "list" /\ req[w].code = HTTP_200_OK
\* The ids of the orders a list response holds, in its order.
ListedIds(w) ==
  [i \in DOMAIN Val(req[w].body).orders |-> Val(req[w].body).orders[i].id]

\* C11: every order in a list response to a caller who is not an admin is
\* owned by the caller, whatever the store holds and whatever status, page
\* and limit the caller sends.
C11_ListHoldsOnlyOwnOrders ==
  \A w \in DOMAIN req :
    (Listed(w) /\ req[w].caller.role # "admin")
      => \A i \in DOMAIN Val(req[w].body).orders :
           /\ Val(req[w].body).orders[i].user_id = req[w].caller.user_id
           /\ orders[Val(req[w].body).orders[i].id].user_id
                = req[w].caller.user_id
C11_Witness ==
  \E w \in DOMAIN req :
    /\ Listed(w) /\ req[w].caller.role = "customer"
    /\ req[w].r.status = Some("")
    /\ Len(Val(req[w].body).orders) >= 1
    /\ \E oid \in DOMAIN orders : orders[oid].user_id # req[w].caller.user_id

Writes(w) ==
  /\ req[w].pc = "update_write" /\ req'[w].pc = "update_read"
  /\ req[w].oid \in DOMAIN orders

\* C12: update_order and delete_order called by a caller who is not an admin
\* answer 403, for a malformed id, an unknown id and a stored one alike, and
\* leave the store as it is; every step that changes or removes a stored order
\* is a step of a handler called by an admin.
C12_NonAdminRefused ==
  \A w \in DOMAIN req :
    ((Responds(w, "update") \/ Responds(w, "delete"))
       /\ req'[w].caller.role # "admin")
      => req'[w].code = HTTP_403_FORBIDDEN /\ orders' = orders
C12_OnlyAdminChanges ==
  (\E oid \in DOMAIN orders :
      oid \notin DOMAIN orders' \/ orders'[oid] # orders[oid])
    => \E w \in DOMAIN req :
         /\ req'[w] # req[w]
         /\ req'[w].pc \in {"update_read", "done"}
         /\ req'[w].caller.role = "admin"
C12_OnlyAdminsUpdateOrDelete ==
  [][C12_NonAdminRefused /\ C12_OnlyAdminChanges]_vars
C12_Witness ==
  \E w \in DOMAIN req :
    /\ Done(w) /\ req[w].op \in {"update", "delete"}
    /\ req[w].caller.role = "customer"
    /\ req[w].oid \in DOMAIN orders
    /\ req[w].code = HTTP_403_FORBIDDEN

\* C13: the update_one of a successful update_order changes only the fields
\* the patch holds, plus updated_at: without status in the patch the stored
\* status stays; without items in the patch the stored items and total_price
\* stay; with items in the patch the stored total_price becomes the sum of
\* price * quantity over the new items.
C13_UpdateChangesOnlyPatchFields ==
  [][\A w \in DOMAIN req :
       Writes(w) =>
         LET old == orders[req[w].oid]
             new == orders'[req[w].oid]
             patch == req[w].update_dict
         IN /\ ("status" \notin DOMAIN patch => new.status = old.status)
            /\ ("items" \notin DOMAIN patch =>
                  new.items = old.items /\ new.total_price = old.total_price)
            /\ (("items" \in DOMAIN patch /\ IsSome(patch.items)) =>
                  /\ new.items = patch.items
                  /\ new.total_price = Some(SumItems(Val(patch.items))))
            /\ new.user_id = old.user_id
            /\ new.created_at = old.created_at]_vars

\* C14: the update_one of a successful update_order stores the time the call
\* was validated as updated_at, which is not earlier than the updated_at stored
\* before; with an empty patch every other field of the order stays as stored.
C14_UpdateAdvancesUpdatedAt ==
  [][\A w \in DOMAIN req :
       Writes(w) =>
         LET old == orders[req[w].oid]
             new == orders'[req[w].oid]
             patch == req[w].update_dict
         IN /\ new.updated_at = patch.updated_at
            /\ new.updated_at >= old.updated_at
            /\ (DOMAIN patch = {"updated_at"} =>
                  new = [old EXCEPT !.updated_at = patch.updated_at])]_vars

\* C15: as long as an order is stored, its user_id and created_at (and the
\* fields it is made of) stay as they are, whatever an update_order body
\* holds, keys that OrderUpdate does not declare included; the id is the key
\* the order is stored under.
C15_IdentityFieldsImmutable ==
  [][\A oid \in DOMAIN orders \cap DOMAIN orders' :
       /\ orders'[oid].user_id = orders[oid].user_id
       /\ orders'[oid].created_at = orders[oid].created_at
       /\ DOMAIN orders'[oid] = DOMAIN orders[oid]]_vars
C15_Witness ==
  \E oid \in DOMAIN orders :
    /\ creator[oid].role = "customer"
    /\ orders[oid].status = Some("Shipped")
    /\ orders[oid].user_id = creator[oid].user_id
    /\ orders[oid].updated_at > orders[oid].created_at

\* C16: an update_order that answers 200 to a patch holding a status returns
\* the order with that status, also when another update_order on the same
\* order runs at the same time.
C16_UpdateReturnsOwnWrite ==
  \A w \in DOMAIN req :
    (Done(w) /\ req[w].op = "update" /\ req[w].code = HTTP_200_OK
       /\ IsSome(req[w].r.status))
      => Val(req[w].body).status = Val(req[w].r.status)

\* C17: update_order by an admin with a patch whose status is a string outside
\* the five enumerated values answers 422; the step leaves the store as it is
\* and no update_one is pending for such a patch.
C17_UnknownStatusRefused ==
  \A w \in DOMAIN req :
    /\ (Done(w) /\ req[w].op = "update" /\ req[w].caller.role = "admin"
          /\ IsSome(req[w].r.status) /\ Val(req[w].r.status) \notin Statuses)
         => req[w].code = HTTP_422_UNPROCESSABLE_ENTITY
    /\ (req[w].pc \in {"update_write", "update_read"}
          /\ IsSome(req[w].r.status))
         => Val(req[w].r.status) \in Statuses
C17_UnknownStatusStoresNothing ==
  \A w \in DOMAIN req :
    (Responds(w, "update") /\ req'[w].code = HTTP_422_UNPROCESSABLE_ENTITY)
      => orders' = orders
Deleted == {oid \in 1..(nextId - 1) : oid \notin DOMAIN orders}

\* C18: delete_order by an admin on a stored order answers 204 and removes the
\* order, whatever its status; from then on the order stays away, and every
\* delete_order by an admin and every get_order on its id answers 404.
C18_DeleteSucceeds ==
  \A w \in DOMAIN req :
    (Responds(w, "delete") /\ req'[w].caller.role = "admin"
       /\ req'[w].oid \in DOMAIN orders)
      => req'[w].code = HTTP_204_NO_CONTENT /\ req'[w].oid \notin DOMAIN orders'
C18_DeletedIsNotFound ==
  \A w \in DOMAIN req :
    (/\ Responds(w, "get")
          \/ (Responds(w, "delete") /\ req'[w].caller.role = "admin")
     /\ req'[w].oid \in Deleted)
      => req'[w].code = HTTP_404_NOT_FOUND
C18_DeletedStaysDeleted == \A oid \in Deleted : oid \notin DOMAIN orders'
C18_DeleteThenNotFound ==
  [][C18_DeleteSucceeds /\ C18_DeletedIsNotFound /\ C18_DeletedStaysDeleted]_vars
C18_Witness ==
  \E w \in DOMAIN req :
    /\ Done(w) /\ req[w].op = "delete" /\ req[w].caller.role = "admin"
    /\ req[w].oid \in Deleted
    /\ req[w].code = HTTP_404_NOT_FOUND

\* The orders in the caller's scope: all of them for an admin, the caller's
\* own otherwise.
InScope(w, oid) ==
  req[w].caller.role = "admin" \/ orders[oid].user_id = req[w].caller.user_id
\* total_pages is the least number of pages of `limit` orders that hold total.
IsCeiling(pages, total, limit) ==
  pages * limit >= total /\ (pages - 1) * limit < total

C20_PagesHoldEachOrderOnce ==
  \A w1, w2 \in DOMAIN req :
    (/\ Listed(w1) /\ Listed(w2)
     /\ req[w1].caller = req[w2].caller
     /\ req[w1].r.status = req[w2].r.status
     /\ req[w1].r.limit = req[w2].r.limit
     /\ req[w1].r.page = 1
     /\ \/ Val(req[w1].body).total_pages = 1 /\ w2 = w1
        \/ Val(req[w1].body).total_pages = 2 /\ req[w2].r.page = 2)
      => LET all == IF w2 = w1 THEN ListedIds(w1)
                    ELSE ListedIds(w1) \o ListedIds(w2)
         IN /\ Len(all) = Val(req[w1].body).total
            /\ \A i, j \in DOMAIN all : i # j => all[i] # all[j]
            /\ {all[i] : i \in DOMAIN all} =
                 {oid \in DOMAIN orders : InScope(w1, oid)}
            /\ \A i, j \in DOMAIN all :
                 i < j => orders[all[i]].created_at >= orders[all[j]].created_at

\* C21: list_orders called with a page below 1 or a limit below 1 ends with a
\* page (200) or is refused as invalid input (400 or 422); it never ends in a
\* failure of the skip or total_pages arithmetic.
C21_BadPageOrLimitHandled ==
  \A w \in DOMAIN req :
    (Done(w) /\ req[w].op = "list"
       /\ (req[w].r.page < 1 \/ req[w].r.limit < 1))
      => req[w].code \in {HTTP_200_OK, HTTP_400_BAD_REQUEST,
                          HTTP_422_UNPROCESSABLE_ENTITY}

\* The id stands for a well-formed ObjectId string (0 stands for the others).
WellFormed(order_id) == order_id >= 1

\* C22: get_order, and update_order with a valid patch and delete_order called
\* by an admin, answer 400 to a malformed id, in their first step and without
\* touching the store, and 404 to a well-formed id under which no order is
\* stored; they answer 400 only to a malformed id and 404 only to a well-formed
\* one; get_order answers 404 to any caller, before it looks at the owner.
C22_IdOutcome(w) ==
  /\ ~WellFormed(req'[w].oid) =>
       /\ req'[w].code = HTTP_400_BAD_REQUEST
       /\ req[w].pc = "idle" /\ orders' = orders
  /\ (WellFormed(req'[w].oid) /\ req[w].pc = "idle"
        /\ req'[w].oid \notin DOMAIN orders)
       => req'[w].code = HTTP_404_NOT_FOUND
  /\ req'[w].code = HTTP_400_BAD_REQUEST => ~WellFormed(req'[w].oid)
  /\ req'[w].code = HTTP_404_NOT_FOUND =>
       WellFormed(req'[w].oid) /\ req'[w].oid \notin DOMAIN orders
C22_MalformedIdOrNotFound ==
  [][\A w \in DOMAIN req :
       (\/ Responds(w, "get")
        \/ Responds(w, "delete") /\ req'[w].caller.role = "admin"
        \/ Responds(w, "update") /\ req'[w].caller.role = "admin"
             /\ req'[w].r.valid)
         => C22_IdOutcome(w)]_vars
C22_Witness ==
  \E w \in DOMAIN req :
    /\ Done(w) /\ req[w].op = "get" /\ req[w].caller.role = "customer"
    /\ req[w].oid \in Deleted
    /\ creator[req[w].oid].user_id # req[w].caller.user_id
    /\ req[w].code = HTTP_404_NOT_FOUND

\* C23: once delete_order has removed an order, no order is stored under its
\* id in any later state, also when an update_order that found the order
\* before the delete runs its update_one after it; an order leaves the store
\* only in a delete_order step that answers 204 for its id.
C23_DeletedNeverReturns == \A oid \in Deleted : oid \notin DOMAIN orders'
C23_OnlyDeleteRemoves ==
  \A oid \in DOMAIN orders \ DOMAIN orders' :
    \E w \in DOMAIN req :
      /\ Responds(w, "delete") /\ req'[w].oid = oid
      /\ req'[w].code = HTTP_204_NO_CONTENT
C23_DeletionIrreversible ==
  [][C23_DeletedNeverReturns /\ C23_OnlyDeleteRemoves]_vars
C23_Witness ==
  \E w \in DOMAIN req : req[w].pc = "update_read" /\ req[w].oid \in Deleted

\* C24: update_order called by an admin with a well-formed id and a valid
\* patch answers 200 with the order or 404, also when a delete_order removes
\* the order while the call is under way.
C24_UpdateSucceedsOrNotFound ==
  \A w \in DOMAIN req :
    (Done(w) /\ req[w].op = "update" /\ req[w].caller.role = "admin"
       /\ req[w].r.valid /\ WellFormed(req[w].oid))
      => \/ req[w].code = HTTP_200_OK /\ IsSome(req[w].body)
         \/ req[w].code = HTTP_404_NOT_FOUND

\* C25: a call that does not answer with a success code leaves the store as it
\* was: the step that produces such a response changes nothing, and an
\* update_order that does not answer 200 has changed nothing by its update_one.
C25_FailedUpdateChangedNothing ==
  \A w \in DOMAIN req :
    (Done(w) /\ req[w].op = "update" /\ req[w].caller.role = "admin"
       /\ req[w].code # HTTP_200_OK)
      => ~req[w].r.changed
C25_FailingStepChangesNothing ==
  \A w \in DOMAIN req :
    (req[w].pc # "done" /\ req'[w].pc = "done"
       /\ req'[w].code \notin {HTTP_200_OK, HTTP_201_CREATED, HTTP_204_NO_CONTENT})
      => orders' = orders
C25_FailureChangesNothing ==
  /\ []C25_FailedUpdateChangedNothing
  /\ [][C25_FailingStepChangesNothing]_vars

\* C26: every stored order satisfies the response schema (a non-empty list of
\* valid items, a status string, created_at not after the current time), and
\* get_order by an admin or by the owner on a stored order answers 200.
C26_StoredOrdersReadable ==
  /\ \A oid \in DOMAIN orders : OrderResponseValid(Some(orders[oid]), now)
  /\ \A w \in DOMAIN req :
       (Done(w) /\ req[w].op = "get" /\ req[w].oid \in DOMAIN orders
          /\ (req[w].caller.role = "admin"
                \/ req[w].caller.user_id = orders[req[w].oid].user_id))
         => req[w].code = HTTP_200_OK

\* C27: a list response holds no more orders than its total, and its total is
\* the number of orders matching the query in the state the page is read from,
\* also when orders are created or deleted between the count and the fetch.
C27_PageWithinTotal ==
  \A w \in DOMAIN req :
    Listed(w) => Len(Val(req[w].body).orders) <= Val(req[w].body).total
C27_TotalIsCountAtFetch ==
  \A w \in DOMAIN req :
    (Responds(w, "list") /\ req'[w].code = HTTP_200_OK)
      => Val(req'[w].body).total = count_documents(req[w].query)
C27_CountAndPageAgree ==
  /\ []C27_PageWithinTotal
  /\ [][C27_TotalIsCountAtFetch]_vars

\* C28: the order create_order inserts, and the one it returns with 201, has
\* total_price = the sum of price * quantity over its items, whatever
\* total_price the request body holds.
C28_InsertedTotal ==
  \A oid \in Inserted :
    /\ IsSome(orders'[oid].items)
    /\ orders'[oid].total_price = Some(SumItems(Val(orders'[oid].items)))
C28_ReturnedTotal ==
  \A w \in DOMAIN req :
    (Done(w) /\ req[w].op = "create" /\ req[w].code = HTTP_201_CREATED)
      => Val(req[w].body).total_price = SumItems(Val(req[w].body).items)
C28_CreateComputesTotalPrice ==
  /\ []C28_ReturnedTotal
  /\ [][C28_InsertedTotal]_vars
C28_Witness ==
  \E w \in DOMAIN req :
    /\ Done(w) /\ req[w].op = "create" /\ req[w].code = HTTP_201_CREATED
    /\ IsSome(req[w].r.total_price)
    /\ Len(Val(req[w].body).items) = MaxItems
    /\ Val(req[w].body).total_price # Val(req[w].r.total_price)
    /\ orders[req[w].oid].total_price = Some(Val(req[w].body).total_price)

\* C29: update_order by an admin with a patch status s' among the five, on a
\* stored order with any status s among the five, is not refused, stores s'
\* and answers 200 with status s': no pair (s, s') is rejected.
C29_TransitionNotRefused ==
  \A w \in DOMAIN req :
    (req[w].pc = "idle" /\ req'[w].pc # "idle" /\ req'[w].caller.role = "admin"
       /\ req'[w].oid \in DOMAIN orders
       /\ Val(orders[req'[w].oid].status) \in Statuses)
      => req'[w].pc = "update_write"
C29_TransitionStored ==
  \A w \in DOMAIN req :
    Writes(w) => orders'[req[w].oid].status = req[w].r.status
C29_TransitionReturned ==
  \A w \in DOMAIN req :
    (Done(w) /\ req[w].op = "update")
      => /\ req[w].code = HTTP_200_OK
         /\ Some(Val(req[w].body).status) = req[w].r.status
         /\ orders[req[w].oid].status = req[w].r.status
C29_AnyTransitionAccepted ==
  /\ []C29_TransitionReturned
  /\ [][C29_TransitionNotRefused /\ C29_TransitionStored]_vars
C29_Witness ==
  \E w \in DOMAIN req :
    /\ Done(w) /\ req[w].op = "update" /\ req[w].code = HTTP_200_OK
    /\ req[w].r.status = Some("Pending") /\ req[w].r.changed
    /\ orders[req[w].oid].status = Some("Pending")
    /\ orders[req[w].oid].created_at = MaxTime

\* C30: in every response that holds orders (create_order, get_order,
\* update_order, list_orders), each order's total_price is the sum of price *
\* quantity over the items returned with it, also when the stored total_price
\* is another value.
C30_ResponseTotalsRecomputed ==
  \A w \in DOMAIN req :
    (Done(w) /\ IsSome(req[w].body))
      => IF req[w].op = "list"
           THEN \A i \in DOMAIN Val(req[w].body).orders :
                  Val(req[w].body).orders[i].total_price
                    = SumItems(Val(req[w].body).orders[i].items)
         ELSE Val(req[w].body).total_price = SumItems(Val(req[w].body).items)
C30_Witness ==
  \E w \in DOMAIN req :
    /\ Done(w) /\ req[w].op = "get" /\ req[w].code = HTTP_200_OK
    /\ req[w].caller.role = "customer"
    /\ orders[req[w].oid].total_price # Some(Val(req[w].body).total_price)
====
